---- MODULE Spec2Model ----
(***************************************************************************)
(* Model of src/notify.py (GitHubStarNotifier): one notifier process at a  *)
(* time working on the state file stars_state.json, the remote stargazer   *)
(* listing, the profile endpoint and the two webhook channels.             *)
(*                                                                         *)
(* Spec leaves the clock of the continuous loop open; SpecSched follows    *)
(* it tick by tick, SpecTwo puts a second process beside the first, and    *)
(* SpecCrash remembers across a restart what a killed cycle had posted.    *)
(*                                                                         *)
(* A process is started by main(), runs check cycles (fetch -> diff ->     *)
(* enrich -> notify -> save) and ends by returning, by an exception that   *)
(* reaches main's handler (sys.exit(1)) or by being killed.  The state     *)
(* file outlives the process; everything else is lost with it.             *)
(***************************************************************************)
EXTENDS Naturals, Sequences, FiniteSets, TLC

(* ------------------------------ bounds --------------------------------- *)
\* number of distinct accounts that may star the repository
MaxUsers == 2
\* longest remote listing (the API may repeat a record)
MaxStars == 2
\* largest follower count / threshold that is enumerated
MaxFollowers == 1
\* largest --interval that is enumerated besides the default, in ticks
MaxInterval == 3

(* ------------------------- program constants --------------------------- *)
\* per_page of get_stargazers; 100 in the source, scaled down so that a
\* listing of MaxStars records fills a page and a further page is requested
PerPage == 2
\* show_history prints stargazers[:10]
TopN == 10
\* time is counted in ticks of 30 seconds: time.sleep(60) of the loop of
\* run_continuous, and the default of --interval (300)
SleepPeriod == 2
DefaultInterval == 10

(* ------------------------------ values --------------------------------- *)
None == "None"
\* contents of stars_state.json: no file, a file json.load cannot read, or
\* the JSON object whose known_stars is the list q (last_check is never read)
Missing == [state |-> "missing", known_stars |-> <<>>]
Corrupt == [state |-> "corrupt", known_stars |-> <<>>]
Saved(q) == [state |-> "saved", known_stars |-> q]

LoginNames == <<"a", "b", "c", "d", "e">>
Users == {[login |-> LoginNames[n], id |-> n] : n \in 1..MaxUsers}
FollowerCounts == 0..MaxFollowers
\* an optional setting: <<>> when it is not given, <<v>> when it is
Optional(V) == {<<>>} \cup {<<v>> : v \in V}
Modes == {"check_once", "history", "continuous"}

\* values of --interval, in ticks
Intervals == (1..MaxInterval) \cup {DefaultInterval}

\* the settings a process is started with that decide how its start goes:
\* the required environment variables (set or not), MIN_FOLLOWERS, the
\* --min-followers option and the --interval option
AllEnvs == [GITHUB_TOKEN : BOOLEAN, GITHUB_REPO : BOOLEAN,
            MIN_FOLLOWERS : Optional(FollowerCounts),
            min_followers_arg : Optional(FollowerCounts),
            interval : Intervals]
\* without a required setting the thresholds are never read, so those starts
\* are enumerated with the thresholds unset only; the interval is the default
\* where the clock of the loop is left open
Envs == {e \in AllEnvs : /\ e.interval = DefaultInterval
                         /\ (~e.GITHUB_TOKEN \/ ~e.GITHUB_REPO) =>
                               (e.MIN_FOLLOWERS = <<>> /\ e.min_followers_arg = <<>>)}
NoEnv == [GITHUB_TOKEN |-> FALSE, GITHUB_REPO |-> FALSE,
          MIN_FOLLOWERS |-> <<>>, min_followers_arg |-> <<>>,
          interval |-> DefaultInterval]

Min(a, b) == IF a < b THEN a ELSE b

\* star_id = f"{stargazer['login']}_{stargazer['id']}"
StarId(s) == s.login \o "_" \o ToString(s.id)

\* the star_ids of a list of stargazer records
Keys(S) == {StarId(S[n]) : n \in 1..Len(S)}

\* list(self.known_stars): the elements of a set in some order, each once
ListsOf(K) == {q \in [1..Cardinality(K) -> K] : \A k \in K : \E n \in 1..Cardinality(K) : q[n] = k}

\* set(data.get('known_stars', []))
SetOf(q) == {q[n] : n \in 1..Len(q)}

\* the records the listing endpoint returns for ?page=p&per_page=PerPage
PageData(listing, p) == SubSeq(listing, (p - 1) * PerPage + 1, Min(p * PerPage, Len(listing)))

(* ------------------------------ state ---------------------------------- *)
VARIABLES
    remote,         \* the repository's stargazer listing at the API
    file,           \* stars_state.json: Missing, Corrupt or Saved(list)
    pc,             \* where the process is; "off" when no process runs
    mode,           \* command of the running process
    known_stars,    \* self.known_stars
    min_followers,  \* self.min_followers
    slack_webhook,  \* SLACK_WEBHOOK_URL is set
    discord_webhook,\* DISCORD_WEBHOOK_URL is set
    interval,       \* args.interval, 0 while no process has read it
    env,            \* the settings main() is started with; NoEnv once it has
                    \* read them
    page,           \* get_stargazers: page
    stargazers,     \* get_stargazers: stargazers / check_new_stars: stargazers
    new_stars,      \* check_new_stars: new_stars
    i,              \* position of the loop over new_stars (or of show_history)
    err,            \* the exception travelling to main's handler, None if none
    exitStatus,     \* exit status of the last process: None, "0", "1" or "killed"
    elapsed,        \* ticks since the schedule set the job's next run, counted
                    \* up to interval
    in_job,         \* check_new_stars was called by schedule.run_pending
    otherPc,        \* a second process on the same state file: where it is
    otherKnown,     \* its self.known_stars
    \* history of the run, kept to state the properties
    cycleKnown,     \* known_stars when the current cycle started
    procKnown,      \* keys known at the start of some cycle of this process
    attempts,       \* <<star_id, channel, delivered>> webhook posts of this cycle
    enrichFailed,   \* star_ids whose get_user_info returned None in this cycle
    skipped,        \* star_ids skipped by the follower filter in this cycle
    fetchFailed,    \* a listing request of this cycle has failed
    skippedDone,    \* star_ids skipped by the filter in a cycle that completed
    prevKeys,       \* star_ids of the listing the last completed cycle fetched
    lastInfo,       \* what get_user_info returned in the step just taken
    requested,      \* the process has sent a request to an endpoint or webhook
    idleWake,       \* run_pending found nothing due since the job last ran
    crashed         \* star_ids posted in the cycle a kill has interrupted, until
                    \* the next process ends or completes a cycle

vars == <<remote, file, pc, mode, known_stars, min_followers, slack_webhook,
          discord_webhook, env, page, stargazers, new_stars, i, err,
          exitStatus, cycleKnown, procKnown, attempts, enrichFailed,
          skipped, fetchFailed, skippedDone, prevKeys, interval, elapsed,
          in_job, otherPc, otherKnown, lastInfo, requested, idleWake, crashed>>

envVars == <<slack_webhook, discord_webhook, min_followers, interval, mode, env>>
cycleLog == <<attempts, enrichFailed, skipped, fetchFailed, lastInfo>>
timers == <<elapsed, in_job, idleWake>>
other == <<otherPc, otherKnown>>

Init ==
    /\ remote = <<>>
    /\ file = Missing
    /\ pc = "off"
    /\ mode = None
    /\ known_stars = {}
    /\ min_followers = 0
    /\ slack_webhook = FALSE
    /\ discord_webhook = FALSE
    /\ env = NoEnv
    /\ page = 1
    /\ stargazers = <<>>
    /\ new_stars = <<>>
    /\ i = 1
    /\ err = None
    /\ exitStatus = None
    /\ cycleKnown = {}
    /\ procKnown = {}
    /\ attempts = {}
    /\ enrichFailed = {}
    /\ skipped = {}
    /\ fetchFailed = FALSE
    /\ skippedDone = {}
    /\ prevKeys = {}
    /\ interval = 0
    /\ elapsed = 0
    /\ in_job = FALSE
    /\ otherPc = "off"
    /\ otherKnown = {}
    /\ lastInfo = <<>>
    /\ requested = FALSE
    /\ idleWake = FALSE
    /\ crashed = {}


(* --------------------------- pure helpers ------------------------------ *)
\* lines 216-220: the single pass over the fetched list; a record whose key is
\* not yet known is appended to new_stars and its key is added at once
RECURSIVE DiffFrom(_, _, _, _)
DiffFrom(S, n, K, new) ==
    IF n > Len(S) THEN [new_stars |-> new, known_stars |-> K]
    ELSE IF StarId(S[n]) \notin K
         THEN DiffFrom(S, n + 1, K \cup {StarId(S[n])}, Append(new, S[n]))
         ELSE DiffFrom(S, n + 1, K, new)

\* variant: the pass without the membership test of line 218
DiffPassAll(S, K) == [new_stars |-> S, known_stars |-> K \cup Keys(S)]

\* variant: the pass without the add of line 220
DiffPassNoAdd(S, K) ==
    [new_stars |-> SelectSeq(S, LAMBDA r : StarId(r) \notin K), known_stars |-> K]

\* variant: the pass that also drops the keys that are no longer listed
DiffPassPrune(S, K) ==
    [new_stars |-> DiffFrom(S, 1, K, <<>>).new_stars, known_stars |-> Keys(S)]

DiffPass(S, K) == DiffFrom(S, 1, K, <<>>)

\* line 43: int(os.getenv('MIN_FOLLOWERS', 0))
EnvMinFollowers(e) == IF e = <<>> THEN 0 ELSE e[1]

\* line 295: --min-followers has default=0, so args.min_followers is never None
ArgMinFollowers(a) == IF a = <<>> THEN 0 ELSE a[1]

\* self.min_followers once main reaches its dispatch: line 43 assigns the
\* environment value, line 301 then assigns args.min_followers over it
MainMinFollowers(e, a) == ArgMinFollowers(a)

\* variant: load_state that never reads the file
LoadStateEmpty(f) == {}

\* load_state: no file gives the empty set, a readable file the set of its list
LoadState(f) == IF f.state = "missing" THEN {} ELSE SetOf(f.known_stars)

\* the stargazer the loop over new_stars is at
Current == new_stars[i]

\* variant: only the token is required
ConfigMissingTokenOnly(e) == ~e.GITHUB_TOKEN

\* lines 25-28: a required setting is not set
ConfigMissing(e) == ~e.GITHUB_TOKEN \/ ~e.GITHUB_REPO

\* variant: the filter also skips a profile that is exactly at the threshold
BelowThresholdOrAt(followers, threshold) == followers <= threshold

\* line 231: the follower filter
BelowThreshold(followers, threshold) == followers < threshold

\* variant: a further page is requested only after a page longer than per_page
MorePagesOver(data) == Len(data) > PerPage

\* lines 75 and 87: a further page is requested after a full page only
MorePages(data) == data # <<>> /\ Len(data) >= PerPage

(* ------------------------- shared state changes ------------------------ *)
\* entry of check_new_stars with known set K
BeginCycle(K) ==
    /\ page' = 1
    /\ stargazers' = <<>>
    /\ new_stars' = <<>>
    /\ i' = 1
    /\ cycleKnown' = K
    /\ procKnown' = procKnown \cup K
    /\ attempts' = {}
    /\ enrichFailed' = {}
    /\ skipped' = {}
    /\ fetchFailed' = FALSE
    /\ lastInfo' = <<>>

\* the process ends: its memory is gone, the file and the remote stay
Exit(status) ==
    /\ pc' = "off"
    /\ exitStatus' = status
    /\ known_stars' = {}
    /\ page' = 1
    /\ stargazers' = <<>>
    /\ new_stars' = <<>>
    /\ i' = 1
    /\ cycleKnown' = {}
    /\ procKnown' = {}
    /\ attempts' = {}
    /\ enrichFailed' = {}
    /\ skipped' = {}
    /\ fetchFailed' = FALSE
    /\ lastInfo' = <<>>
    /\ requested' = FALSE
    /\ mode' = None
    /\ min_followers' = 0
    /\ slack_webhook' = FALSE
    /\ discord_webhook' = FALSE
    /\ interval' = 0
    /\ env' = NoEnv
    /\ err' = None
    /\ elapsed' = 0
    /\ in_job' = FALSE
    /\ idleWake' = FALSE
    /\ UNCHANGED <<remote, file, other>>

\* an exception leaves the current frame and travels up to main's handler
Raise(e) ==
    /\ pc' = "except"
    /\ err' = e

\* end of one iteration of the loop over new_stars (lines 225-257)
NextStar ==
    IF i < Len(new_stars)
    THEN /\ i' = i + 1
         /\ pc' = "enrich"
    ELSE /\ i' = i
         /\ pc' = "save"

\* check_new_stars has returned into run_continuous: the locals of the call
\* are gone
DropLocals ==
    /\ page' = 1
    /\ stargazers' = <<>>
    /\ new_stars' = <<>>
    /\ i' = 1
    /\ attempts' = {}
    /\ enrichFailed' = {}
    /\ skipped' = {}
    /\ lastInfo' = <<>>

(* ------------------------------ actions -------------------------------- *)
\* the operator starts the program
Launch(e) ==
    /\ pc = "off"
    /\ pc' = "main"
    /\ env' = e
    /\ exitStatus' = None
    /\ UNCHANGED <<remote, file, mode, known_stars, min_followers, slack_webhook,
                   discord_webhook, interval, page, stargazers, new_stars, i, err,
                   cycleKnown, procKnown, cycleLog, requested, skippedDone, prevKeys,
                   timers, other, crashed>>

\* main() with GitHubStarNotifier.__init__: the required settings, load_state,
\* the webhooks (sl, dc: the URL is set) and the threshold, then the dispatch
\* on the command m
Main(sl, dc, m) ==
    /\ pc = "main"
    /\ env' = NoEnv
    /\ UNCHANGED <<remote, file, exitStatus, requested, skippedDone, prevKeys,
                   timers, other, crashed>>
    /\ IF ConfigMissing(env)
       THEN /\ Raise("config")
            /\ UNCHANGED <<mode, known_stars, min_followers, slack_webhook, discord_webhook,
                           interval, page, stargazers, new_stars, i, cycleKnown, procKnown,
                           cycleLog>>
       ELSE IF file.state = "corrupt"
       THEN /\ Raise("load")
            /\ UNCHANGED <<mode, known_stars, min_followers, slack_webhook, discord_webhook,
                           interval, page, stargazers, new_stars, i, cycleKnown, procKnown,
                           cycleLog>>
       ELSE /\ known_stars' = LoadState(file)
            /\ mode' = m
            /\ slack_webhook' = sl
            /\ discord_webhook' = dc
            /\ min_followers' = MainMinFollowers(env.MIN_FOLLOWERS, env.min_followers_arg)
            /\ interval' = env.interval
            /\ pc' = "fetch"
            /\ err' = None
            /\ IF m = "history"
               THEN /\ page' = 1
                    /\ stargazers' = <<>>
                    /\ UNCHANGED <<new_stars, i, cycleKnown, procKnown, cycleLog>>
               ELSE BeginCycle(LoadState(file))

\* variant: the records of the pages fetched so far are marked known before
\* the error leaves the cycle
FetchPageErrorPartial ==
    /\ pc = "fetch"
    /\ Raise("fetch")
    /\ fetchFailed' = TRUE
    /\ requested' = TRUE
    /\ known_stars' = known_stars \cup Keys(stargazers)
    /\ UNCHANGED <<remote, file, envVars, page, stargazers, new_stars, i,
                   exitStatus, cycleKnown, procKnown, attempts, enrichFailed, skipped,
                   lastInfo, skippedDone, prevKeys, timers, other, crashed>>

\* get_stargazers, one request: raise_for_status raises (lines 71-72)
FetchPageError ==
    /\ pc = "fetch"
    /\ Raise("fetch")
    /\ fetchFailed' = TRUE
    /\ requested' = TRUE
    /\ UNCHANGED <<remote, file, envVars, known_stars, page, stargazers, new_stars, i,
                   exitStatus, cycleKnown, procKnown, attempts, enrichFailed, skipped,
                   lastInfo, skippedDone, prevKeys, timers, other, crashed>>

\* get_stargazers, one request answered (lines 70-89)
FetchPageOk ==
    /\ pc = "fetch"
    /\ LET data == PageData(remote, page)
           more == MorePages(data)
       IN /\ stargazers' = stargazers \o data
          /\ page' = IF more THEN page + 1 ELSE page
          /\ pc' = IF more THEN "fetch"
                   ELSE IF mode = "history" THEN "history" ELSE "diff"
    /\ requested' = TRUE
    /\ UNCHANGED <<remote, file, envVars, known_stars, new_stars, i, err, exitStatus,
                   cycleKnown, procKnown, cycleLog, skippedDone, prevKeys,
                   timers, other, crashed>>

\* variant: the diff pass writes the state file as soon as it has added the keys
DiffSaves ==
    /\ pc = "diff"
    /\ LET d == DiffPass(stargazers, known_stars)
       IN /\ new_stars' = d.new_stars
          /\ known_stars' = d.known_stars
          /\ pc' = IF d.new_stars # <<>> THEN "enrich" ELSE "save"
          /\ \E q \in ListsOf(d.known_stars) : file' = Saved(q)
    /\ i' = 1
    /\ UNCHANGED <<remote, envVars, page, stargazers, err, exitStatus,
                   cycleKnown, procKnown, cycleLog, requested, skippedDone, prevKeys,
                   timers, other, crashed>>

\* check_new_stars lines 214-222 and 258-259
Diff ==
    /\ pc = "diff"
    /\ LET d == DiffPass(stargazers, known_stars)
       IN /\ new_stars' = d.new_stars
          /\ known_stars' = d.known_stars
          /\ pc' = IF d.new_stars # <<>> THEN "enrich" ELSE "save"
    /\ i' = 1
    /\ UNCHANGED <<remote, file, envVars, page, stargazers, err, exitStatus,
                   cycleKnown, procKnown, cycleLog, requested, skippedDone, prevKeys,
                   timers, other, crashed>>

\* lines 227-233: get_user_info of the current new star; info is <<>> when
\* the request failed (None), else <<followers>> of the profile
Enrich(info) ==
    /\ pc = "enrich"
    /\ lastInfo' = info
    /\ requested' = TRUE
    /\ IF info = <<>>
       THEN /\ enrichFailed' = enrichFailed \cup {StarId(Current)}
            /\ NextStar
            /\ UNCHANGED skipped
       ELSE IF BelowThreshold(info[1], min_followers)
       THEN /\ skipped' = skipped \cup {StarId(Current)}
            /\ NextStar
            /\ UNCHANGED enrichFailed
       ELSE /\ pc' = "slack"
            /\ UNCHANGED <<i, enrichFailed, skipped>>
    /\ UNCHANGED <<remote, file, envVars, known_stars, page, stargazers, new_stars, err,
                   exitStatus, cycleKnown, procKnown, attempts, fetchFailed, skippedDone,
                   prevKeys, timers, other, crashed>>

\* variant: send_slack_notification without its try/except, a failed post
\* leaves the cycle as an exception
SendSlackRaises ==
    /\ pc = "slack"
    /\ IF slack_webhook
       THEN \E delivered \in BOOLEAN :
               /\ attempts' = attempts \cup {<<StarId(Current), "slack", delivered>>}
               /\ IF delivered
                  THEN /\ pc' = "discord"
                       /\ UNCHANGED err
                  ELSE Raise("slack")
       ELSE /\ pc' = "discord"
            /\ UNCHANGED <<attempts, err>>
    /\ lastInfo' = <<>>
    /\ UNCHANGED <<remote, file, envVars, known_stars, page, stargazers, new_stars, i,
                   exitStatus, cycleKnown, procKnown, enrichFailed, skipped, fetchFailed,
                   requested, skippedDone, prevKeys, timers, other, crashed>>

\* send_slack_notification: nothing without a webhook; else one post whose
\* failure is caught inside the method
SendSlack ==
    /\ pc = "slack"
    /\ IF slack_webhook
       THEN \E delivered \in BOOLEAN :
               attempts' = attempts \cup {<<StarId(Current), "slack", delivered>>}
       ELSE UNCHANGED attempts
    /\ pc' = "discord"
    /\ lastInfo' = <<>>
    /\ UNCHANGED <<remote, file, envVars, known_stars, page, stargazers, new_stars, i, err,
                   exitStatus, cycleKnown, procKnown, enrichFailed, skipped, fetchFailed,
                   requested, skippedDone, prevKeys, timers, other, crashed>>

\* send_discord_notification, then the prints that end the iteration
SendDiscord ==
    /\ pc = "discord"
    /\ IF discord_webhook
       THEN \E delivered \in BOOLEAN :
               attempts' = attempts \cup {<<StarId(Current), "discord", delivered>>}
       ELSE UNCHANGED attempts
    /\ NextStar
    /\ UNCHANGED <<remote, file, envVars, known_stars, page, stargazers, new_stars, err,
                   exitStatus, cycleKnown, procKnown, enrichFailed, skipped, fetchFailed,
                   lastInfo, requested, skippedDone, prevKeys, timers, other, crashed>>

\* save_state writes the whole set; check_new_stars is at its end
SaveStateOk ==
    /\ pc = "save"
    /\ \E q \in ListsOf(known_stars) : file' = Saved(q)
    /\ pc' = "checked"
    /\ lastInfo' = <<>>
    /\ UNCHANGED <<remote, envVars, known_stars, page, stargazers, new_stars, i, err,
                   exitStatus, cycleKnown, procKnown, attempts, enrichFailed, skipped,
                   fetchFailed, requested, skippedDone, prevKeys, timers, other, crashed>>

\* save_state raises: open() fails and the file is as before, or the write
\* fails after open(..., 'w') has truncated the file
SaveStateError ==
    /\ pc = "save"
    /\ \/ UNCHANGED file
       \/ file' = Corrupt
    /\ Raise("save")
    /\ lastInfo' = <<>>
    /\ UNCHANGED <<remote, envVars, known_stars, page, stargazers, new_stars, i,
                   exitStatus, cycleKnown, procKnown, attempts, enrichFailed, skipped,
                   fetchFailed, requested, skippedDone, prevKeys, timers, other, crashed>>

\* variant: show_history that marks the stargazer it prints as known
ShowHistoryMarks ==
    /\ pc = "history"
    /\ i <= Min(TopN, Len(stargazers))
    /\ i' = i + 1
    /\ known_stars' = known_stars \cup {StarId(stargazers[i])}
    /\ UNCHANGED <<remote, file, envVars, pc, page, stargazers, new_stars, err,
                   exitStatus, cycleKnown, procKnown, cycleLog, requested, skippedDone,
                   prevKeys, timers, other, crashed>>

\* show_history lines 271-274: one get_user_info and one printed line
ShowHistory ==
    /\ pc = "history"
    /\ i <= Min(TopN, Len(stargazers))
    /\ i' = i + 1
    /\ UNCHANGED <<remote, file, envVars, pc, known_stars, page, stargazers, new_stars, err,
                   exitStatus, cycleKnown, procKnown, cycleLog, requested, skippedDone,
                   prevKeys, timers, other, crashed>>

\* the cycle is complete: what it skipped and what it had fetched
CycleDone ==
    /\ skippedDone' = skippedDone \cup skipped
    /\ prevKeys' = Keys(stargazers)
    /\ crashed' = {}

\* --check-once: check_new_stars returns to main, the process ends with 0
CheckOnceReturn ==
    /\ pc = "checked"
    /\ mode = "check_once"
    /\ CycleDone
    /\ Exit("0")

\* --history: show_history has printed its last line, the process ends with 0
HistoryReturn ==
    /\ pc = "history"
    /\ i > Min(TopN, Len(stargazers))
    /\ Exit("0")
    /\ crashed' = {}
    /\ UNCHANGED <<skippedDone, prevKeys>>

\* the initial check_new_stars returns into run_continuous, which goes on
\* to its loop (lines 283-287)
LoopEnter ==
    /\ pc = "checked"
    /\ mode = "continuous"
    /\ ~in_job
    /\ CycleDone
    /\ DropLocals
    /\ pc' = "loop"
    /\ UNCHANGED <<remote, file, envVars, known_stars, err, exitStatus, cycleKnown,
                   procKnown, fetchFailed, requested, timers, other>>

\* run_continuous lines 285-287 with the clock left open: after some number
\* of rounds of the loop run_pending finds the job due and calls
\* check_new_stars again
RunPending ==
    /\ pc = "loop"
    /\ pc' = "fetch"
    /\ BeginCycle(known_stars)
    /\ UNCHANGED <<remote, file, envVars, known_stars, err, exitStatus, requested,
                   skippedDone, prevKeys, timers, other, crashed>>

\* main lines 309-311: except Exception -> print, sys.exit(1)
MainExcept ==
    /\ pc = "except"
    /\ Exit("1")
    /\ crashed' = {}
    /\ UNCHANGED <<skippedDone, prevKeys>>

\* the process is killed from outside
Kill ==
    /\ pc \notin {"off", "main", "except"}
    /\ Exit("killed")
    /\ crashed' = {}
    /\ UNCHANGED <<skippedDone, prevKeys>>

\* somebody stars the repository (or the API repeats a record)
Star(u) ==
    /\ pc \in {"off", "loop", "sleep"}
    /\ Len(remote) < MaxStars
    /\ remote' = Append(remote, u)
    /\ UNCHANGED <<file, pc, envVars, known_stars, page, stargazers, new_stars, i, err,
                   exitStatus, cycleKnown, procKnown, cycleLog, requested, skippedDone,
                   prevKeys, timers, other, crashed>>

\* somebody removes the star
Unstar(n) ==
    /\ pc \in {"off", "loop", "sleep"}
    /\ n \in 1..Len(remote)
    /\ remote' = SubSeq(remote, 1, n - 1) \o SubSeq(remote, n + 1, Len(remote))
    /\ UNCHANGED <<file, pc, envVars, known_stars, page, stargazers, new_stars, i, err,
                   exitStatus, cycleKnown, procKnown, cycleLog, requested, skippedDone,
                   prevKeys, timers, other, crashed>>

\* the history command never reads the webhook settings: it is started with
\* both of them set
Next ==
    \/ \E e \in Envs : Launch(e)
    \/ \E sl, dc \in BOOLEAN, m \in Modes \ {"history"} : Main(sl, dc, m)
    \/ Main(TRUE, TRUE, "history")
    \/ FetchPageError
    \/ FetchPageOk
    \/ Diff
    \/ \E info \in Optional(FollowerCounts) : Enrich(info)
    \/ SendSlack
    \/ SendDiscord
    \/ SaveStateOk
    \/ SaveStateError
    \/ ShowHistory
    \/ CheckOnceReturn
    \/ HistoryReturn
    \/ LoopEnter
    \/ RunPending
    \/ MainExcept
    \/ Kill
    \/ \E u \in Users : Star(u)
    \/ \E n \in 1..MaxStars : Unstar(n)

Spec == Init /\ [][Next]_vars

(* ------------------- the loop of run_continuous, timed ------------------ *)
\* schedule.every(interval).seconds.do(...) at line 280 sets the job's next
\* run to now + interval; run_pending runs the job when that time has come
\* and then sets the next run to now + interval again.  The time a check
\* itself takes is counted as zero.
JobPending == elapsed >= interval

\* line 286: run_pending finds the job due and calls check_new_stars
JobDue ==
    /\ pc = "loop"
    /\ JobPending
    /\ pc' = "fetch"
    /\ in_job' = TRUE
    /\ BeginCycle(known_stars)
    /\ UNCHANGED <<remote, file, envVars, known_stars, err, exitStatus, requested,
                   skippedDone, prevKeys, elapsed, idleWake, other, crashed>>

\* line 286: run_pending finds nothing due; the loop goes to sleep
JobNotDue ==
    /\ pc = "loop"
    /\ ~JobPending
    /\ pc' = "sleep"
    /\ idleWake' = TRUE
    /\ UNCHANGED <<remote, file, envVars, known_stars, page, stargazers, new_stars, i, err,
                   exitStatus, cycleKnown, procKnown, cycleLog, requested, skippedDone,
                   prevKeys, elapsed, in_job, other, crashed>>

\* variant: a sleep during which the job's next run does not come closer
SleepStill ==
    /\ pc = "sleep"
    /\ pc' = "loop"
    /\ UNCHANGED <<remote, file, envVars, known_stars, page, stargazers, new_stars, i, err,
                   exitStatus, cycleKnown, procKnown, cycleLog, requested, skippedDone,
                   prevKeys, timers, other, crashed>>

\* line 287: time.sleep(60) returns and the loop comes round to run_pending
Sleep ==
    /\ pc = "sleep"
    /\ pc' = "loop"
    /\ elapsed' = Min(interval, elapsed + SleepPeriod)
    /\ UNCHANGED <<remote, file, envVars, known_stars, page, stargazers, new_stars, i, err,
                   exitStatus, cycleKnown, procKnown, cycleLog, requested, skippedDone,
                   prevKeys, in_job, idleWake, other, crashed>>

\* the job called by run_pending returns: the schedule sets its next run
\* and the loop goes to sleep (lines 286-287)
JobReturn ==
    /\ pc = "checked"
    /\ mode = "continuous"
    /\ in_job
    /\ CycleDone
    /\ DropLocals
    /\ pc' = "sleep"
    /\ in_job' = FALSE
    /\ elapsed' = 0
    /\ idleWake' = FALSE
    /\ UNCHANGED <<remote, file, envVars, known_stars, err, exitStatus, cycleKnown,
                   procKnown, fetchFailed, requested, other>>

\* starts of the continuous mode with every interval; the settings are
\* there and the thresholds are not set
SchedEnvs == {e \in AllEnvs : /\ ~ConfigMissing(e)
                              /\ e.MIN_FOLLOWERS = <<>>
                              /\ e.min_followers_arg = <<>>}

NextSched ==
    \/ \E e \in SchedEnvs : Launch(e)
    \/ \E sl \in BOOLEAN : Main(sl, FALSE, "continuous")
    \/ FetchPageError
    \/ FetchPageOk
    \/ Diff
    \/ \E info \in Optional(FollowerCounts) : Enrich(info)
    \/ SendSlack
    \/ SendDiscord
    \/ SaveStateOk
    \/ SaveStateError
    \/ LoopEnter
    \/ JobDue
    \/ JobNotDue
    \/ Sleep
    \/ JobReturn
    \/ MainExcept
    \/ Kill
    \/ \E u \in Users : Star(u)

\* the process is a running thread: a step of run_continuous that can be
\* taken is taken, unless the process is killed first
SpecSched ==
    /\ Init
    /\ [][NextSched]_vars
    /\ WF_vars(LoopEnter)
    /\ WF_vars(JobDue)
    /\ WF_vars(JobNotDue)
    /\ WF_vars(Sleep)
    /\ WF_vars(JobReturn)

(* ------------- a second process on the same state file ------------------ *)
\* A second --check-once process runs the same code beside the first one.
\* Its steps are the ones that touch what the two share: load_state at its
\* start, the listing it fetches and diffs, and save_state at its end; its
\* profile requests and posts are not followed.
OtherStart ==
    /\ otherPc = "off"
    /\ file.state # "corrupt"
    /\ otherKnown' = LoadState(file)
    /\ otherPc' = "fetch"
    /\ UNCHANGED <<remote, file, pc, envVars, known_stars, page, stargazers, new_stars, i,
                   err, exitStatus, cycleKnown, procKnown, cycleLog, requested,
                   skippedDone, prevKeys, timers, crashed>>

\* its get_stargazers and its diff pass (lines 213-220)
OtherCheck ==
    /\ otherPc = "fetch"
    /\ otherKnown' = DiffPass(remote, otherKnown).known_stars
    /\ otherPc' = "save"
    /\ UNCHANGED <<remote, file, pc, envVars, known_stars, page, stargazers, new_stars, i,
                   err, exitStatus, cycleKnown, procKnown, cycleLog, requested,
                   skippedDone, prevKeys, timers, crashed>>

\* variant: save_state that reads the file again and writes the union
OtherSaveMerged ==
    /\ otherPc = "save"
    /\ \E q \in ListsOf(otherKnown \cup LoadState(file)) : file' = Saved(q)
    /\ otherPc' = "off"
    /\ otherKnown' = {}
    /\ UNCHANGED <<remote, pc, envVars, known_stars, page, stargazers, new_stars, i,
                   err, exitStatus, cycleKnown, procKnown, cycleLog, requested,
                   skippedDone, prevKeys, timers, crashed>>

\* its save_state (line 261), after which it ends
OtherSave ==
    /\ otherPc = "save"
    /\ \E q \in ListsOf(otherKnown) : file' = Saved(q)
    /\ otherPc' = "off"
    /\ otherKnown' = {}
    /\ UNCHANGED <<remote, pc, envVars, known_stars, page, stargazers, new_stars, i,
                   err, exitStatus, cycleKnown, procKnown, cycleLog, requested,
                   skippedDone, prevKeys, timers, crashed>>

\* starts with the settings there, the thresholds unset and the default interval
TwoEnvs == {e \in Envs : /\ ~ConfigMissing(e)
                         /\ e.MIN_FOLLOWERS = <<>>
                         /\ e.min_followers_arg = <<>>}

NextTwo ==
    \/ \E e \in TwoEnvs : Launch(e)
    \/ \E sl \in BOOLEAN : Main(sl, FALSE, "check_once")
    \/ FetchPageOk
    \/ Diff
    \/ \E info \in Optional(FollowerCounts) : Enrich(info)
    \/ SendSlack
    \/ SendDiscord
    \/ SaveStateOk
    \/ CheckOnceReturn
    \/ OtherStart
    \/ OtherCheck
    \/ OtherSave
    \/ \E u \in Users : Star(u)

SpecTwo == Init /\ [][NextTwo]_vars

(* ------------- kills followed across the restart ------------------------ *)
\* the process is killed from outside; when that happens inside a cycle
\* before its save_state, the keys the cycle has posted are remembered
Crash ==
    /\ pc \notin {"off", "main", "except"}
    /\ Exit("killed")
    /\ crashed' = IF pc \in {"enrich", "slack", "discord", "save"}
                  THEN {a[1] : a \in attempts} ELSE {}
    /\ UNCHANGED <<skippedDone, prevKeys>>

\* the checking commands, with stars arriving and none removed
NextCrash ==
    \/ \E e \in Envs : Launch(e)
    \/ \E sl, dc \in BOOLEAN, m \in {"check_once", "continuous"} : Main(sl, dc, m)
    \/ FetchPageError
    \/ FetchPageOk
    \/ Diff
    \/ \E info \in Optional(FollowerCounts) : Enrich(info)
    \/ SendSlack
    \/ SendDiscord
    \/ SaveStateOk
    \/ SaveStateError
    \/ CheckOnceReturn
    \/ LoopEnter
    \/ RunPending
    \/ MainExcept
    \/ Crash
    \/ \E u \in Users : Star(u)

SpecCrash == Init /\ [][NextCrash]_vars

(* ----------------------------- properties ------------------------------ *)
\* star_ids a webhook post of this cycle was made for
AttemptKeys == {a[1] : a \in attempts}

\* the cycle is past its diff pass
PastDiff == pc \in {"enrich", "slack", "discord", "save", "checked"}

\* the process runs check cycles
Checking == mode \in {"check_once", "continuous"}

\* C1: no webhook post is ever made for an identity whose key was in the
\* known set at the start of this cycle or of an earlier cycle of the process,
\* whatever enrichment or sends failed in between
C1_KnownNeverNotified == \A k \in AttemptKeys : k \notin procKnown

\* C1 witness: a later cycle of a continuous process fetched an identity that
\* was already known, a post for another identity failed, none was made for it
C1_Witness ==
    /\ mode = "continuous"
    /\ pc = "checked"
    /\ Keys(stargazers) \cap cycleKnown # {}
    /\ \E a \in attempts : ~a[3]

\* C2 (as claimed): after a cycle, no identity whose profile fetch failed in
\* that cycle is in the known set
C2_EnrichFailureNotKnown == pc = "checked" => enrichFailed \cap known_stars = {}

\* C3: an identity skipped by the follower filter gets no post, is in the
\* known set in that cycle, is in the new-list once, and once its cycle has
\* completed it is in no new-list again, under any later threshold
C3_FilteredKnownNeverAgain ==
    /\ skipped \subseteq known_stars
    /\ skipped \cap AttemptKeys = {}
    /\ \A k \in skipped : Cardinality({n \in 1..Len(new_stars) : StarId(new_stars[n]) = k}) = 1
    /\ \A k \in skippedDone : k \notin Keys(new_stars)

\* C3 witness: an identity skipped in an earlier, completed cycle is fetched
\* again by a cycle whose threshold it would pass
C3_Witness ==
    /\ pc = "save"
    /\ min_followers = 0
    /\ skippedDone \cap Keys(stargazers) # {}
    /\ new_stars # <<>>

\* C4: a cycle that fetches only identities the last completed cycle had
\* fetched finds no new star and makes no post
C4_SameListingNoNewStars ==
    (PastDiff /\ Keys(stargazers) \subseteq prevKeys) => (new_stars = <<>> /\ attempts = {})

\* C4 witness: a cycle has fetched a non-empty listing that the last completed
\* cycle, which skipped one of its identities, had fetched too
C4_Witness ==
    /\ pc = "save"
    /\ stargazers # <<>>
    /\ Keys(stargazers) = prevKeys
    /\ skippedDone \cap prevKeys # {}

\* C5: when a listing request of a check cycle has failed, the exception is on
\* its way to the caller, the known set is the one the cycle started with, the
\* new-list is empty and no post was made
C5_FetchErrorAllOrNothing ==
    (fetchFailed /\ Checking) =>
        /\ pc = "except"
        /\ err = "fetch"
        /\ known_stars = cycleKnown
        /\ new_stars = <<>>
        /\ attempts = {}

\* C5 witness: the request for a later page failed after a page with unknown
\* identities had been retrieved
C5_Witness ==
    /\ fetchFailed
    /\ Checking
    /\ page > 1
    /\ Keys(stargazers) \ known_stars # {}

\* C6 (as claimed): a continuous process whose listing fetch failed does not end
C6_FetchErrorKeepsRunning ==
    [][(pc = "except" /\ err = "fetch" /\ mode = "continuous") => pc' # "off"]_vars

\* C7 (as claimed): a continuous process whose save_state failed does not end
C7_SaveErrorKeepsRunning ==
    [][(pc = "except" /\ err = "save" /\ mode = "continuous") => pc' # "off"]_vars

\* C8 (as claimed): with the required settings present, a start that finds the
\* state file missing or corrupt goes on with the empty known set
C8_MissingOrCorruptLoadsEmpty ==
    [][(pc = "main" /\ env.GITHUB_TOKEN /\ env.GITHUB_REPO
            /\ file.state \in {"missing", "corrupt"})
        => (pc' = "fetch" /\ known_stars' = {})]_vars

\* C9 (as claimed): the threshold a started process filters with is the
\* --min-followers value when one is given, else the MIN_FOLLOWERS value of
\* the environment (0 when unset)
C9_ThresholdEnvUnlessOverride ==
    [][(pc = "main" /\ pc' = "fetch")
        => min_followers' = IF env.min_followers_arg # <<>>
                            THEN env.min_followers_arg[1]
                            ELSE EnvMinFollowers(env.MIN_FOLLOWERS)]_vars

\* C10: a failed post never leaves the cycle as an exception; after a failed
\* Slack post the Discord post for the same star is made when Discord is
\* configured; and the known set and the file written at the end of the cycle
\* are fixed by the known set at the start and the fetched listing alone
C10_SendFailureContained ==
    /\ err \notin {"slack", "discord"}
    /\ \A a \in attempts :
          (a[2] = "slack" /\ ~a[3] /\ discord_webhook) =>
              \/ pc = "discord" /\ StarId(Current) = a[1]
              \/ \E b \in attempts : b[1] = a[1] /\ b[2] = "discord"
    /\ PastDiff => known_stars = cycleKnown \cup Keys(stargazers)
    /\ pc = "checked" => (file.state = "saved" /\ SetOf(file.known_stars) = known_stars)

\* C10 witness: a cycle is complete in which the Slack post for a star failed
\* and the Discord post for the same star was made
C10_Witness ==
    /\ pc = "checked"
    /\ \E a, b \in attempts : a[1] = b[1] /\ a[2] = "slack" /\ ~a[3] /\ b[2] = "discord"

\* C11: a check cycle that has ended, by returning or with a failed listing
\* fetch, has left the in-memory known set in the state file
C11_EveryCycleEndsWritten ==
    (Checking /\ (pc = "checked" \/ (pc = "except" /\ err = "fetch")))
        => (file.state = "saved" /\ SetOf(file.known_stars) = known_stars)

\* C12: inside a process no key ever leaves the known set, a readable state
\* file is only ever replaced by one that holds all its keys, and a process
\* starts from the keys of the file
C12_KnownGrowsMonotonically ==
    [][/\ pc' # "off" => known_stars \subseteq known_stars'
       /\ (file.state = "saved" /\ file'.state = "saved")
             => SetOf(file.known_stars) \subseteq SetOf(file'.known_stars)
       /\ (pc = "main" /\ pc' = "fetch") => known_stars' = LoadState(file)]_vars

\* C12 witness: a cycle has ended with a key in the known set and in the file
\* whose identity the fetched listing no longer holds
C12_Witness ==
    /\ pc = "checked"
    /\ known_stars \ Keys(stargazers) # {}
    /\ SetOf(file.known_stars) \ Keys(stargazers) # {}

\* C13: the continuous mode goes from main straight into a check, and a
\* check that has returned is followed by the start of another one unless
\* the process is killed
C13_ContinuousRunsAgain ==
    /\ [][(pc = "main" /\ mode' = "continuous") => (pc' = "fetch" /\ page' = 1)]_vars
    /\ (pc = "checked" /\ mode = "continuous") ~> (pc = "fetch" \/ exitStatus = "killed")

\* C13 witness: a check called by run_pending has returned, so the initial
\* check has been followed by another
C13_Witness ==
    /\ pc = "checked"
    /\ in_job
    /\ idleWake

\* C14: with every interval, when run_pending starts a check the loop has
\* come round at least once since the last check without starting one
C14_LoopPollsFinerThanInterval ==
    [][(pc = "loop" /\ pc' = "fetch") => idleWake]_vars

\* C15: a process running the history command never changes the state file,
\* keeps the known set it has loaded until it ends, and posts nothing
C15_HistoryMutatesNothing ==
    [][(mode = "history" \/ mode' = "history") =>
          /\ file' = file
          /\ attempts' = {}
          /\ (mode = "history" /\ pc' # "off") => known_stars' = known_stars
          /\ mode' = "history" => known_stars' = LoadState(file)]_vars

\* C15 witness: the history command has printed a stargazer whose key is
\* not known, with a webhook configured
C15_Witness ==
    /\ mode = "history"
    /\ pc = "history"
    /\ i > 1
    /\ StarId(stargazers[1]) \notin known_stars
    /\ slack_webhook

\* C16: a process started without the token or without the repository goes
\* from main to main's handler and from there to exit status 1, and on that
\* way it has sent no request and leaves the state file as it is
C16_MissingConfigFatalBeforeNetwork ==
    [][/\ (pc = "main" /\ (~env.GITHUB_TOKEN \/ ~env.GITHUB_REPO))
            => (pc' = "except" /\ err' = "config" /\ ~requested' /\ file' = file)
       /\ (pc = "except" /\ err = "config")
            => (pc' = "off" /\ exitStatus' = "1" /\ ~requested /\ file' = file)]_vars

\* C16 witness: a start without the repository has reached main's handler
\* while there are a state file and stargazers to fetch
C16_Witness ==
    /\ pc = "except"
    /\ err = "config"
    /\ file.state = "saved"
    /\ remote # <<>>

\* the positions of S that hold a key not in K for the first time
FirstNewAt(S, K) ==
    {n \in 1..Len(S) : /\ StarId(S[n]) \notin K
                       /\ \A k \in 1..(n - 1) : StarId(S[k]) # StarId(S[n])}

\* the records of S at those positions, in the order of S
FirstNew(S, K) ==
    LET at == FirstNewAt(S, K)
    IN [j \in 1..Cardinality(at) |->
           S[CHOOSE n \in at : Cardinality({k \in at : k <= n}) = j]]

\* the star_ids posted to the channel ch in this cycle
PostedTo(ch) == {a[1] : a \in {b \in attempts : b[2] = ch}}

\* C17: in a cycle whose fetch succeeded, the new-list is the records of the
\* listing whose key was not known, each once at its first place and in the
\* order of the listing, the known set is the old one with the keys of the
\* listing, and a configured channel is posted to exactly for the new-list
\* entries whose profile was fetched with followers at or above the threshold
C17_CycleFunction ==
    /\ [](PastDiff =>
            /\ new_stars = FirstNew(stargazers, cycleKnown)
            /\ known_stars = cycleKnown \cup Keys(stargazers))
    /\ []((pc \in {"save", "checked"}) =>
            /\ slack_webhook => PostedTo("slack") = Keys(new_stars) \ (enrichFailed \cup skipped)
            /\ discord_webhook => PostedTo("discord") = Keys(new_stars) \ (enrichFailed \cup skipped))
    /\ [][(pc = "enrich" /\ pc' # "off") =>
            /\ StarId(Current) \in enrichFailed' <=> lastInfo' = <<>>
            /\ StarId(Current) \in skipped' <=> (lastInfo' # <<>> /\ lastInfo'[1] < min_followers)
            /\ pc' = "slack" <=> (lastInfo' # <<>> /\ lastInfo'[1] >= min_followers)]_vars
    /\ [][\/ attempts' \subseteq attempts
          \/ /\ pc \in {"slack", "discord"}
             /\ attempts' \subseteq attempts \cup {<<StarId(Current), pc, d>> : d \in BOOLEAN}]_vars

\* C17 witness: from an empty known set the cycle fetched two identities, the
\* first below the threshold and the second at it; only the second was posted
\* and both are known
C17_Witness ==
    /\ pc = "checked"
    /\ cycleKnown = {}
    /\ min_followers = 1
    /\ Len(stargazers) = 2
    /\ stargazers[1] # stargazers[2]
    /\ skipped = {StarId(stargazers[1])}
    /\ slack_webhook
    /\ PostedTo("slack") = {StarId(stargazers[2])}
    /\ known_stars = Keys(stargazers)

C19_LastWriterWins ==
    [][/\ (pc = "save" /\ pc' = "checked")
            => (file'.state = "saved" /\ SetOf(file'.known_stars) = known_stars)
       /\ (otherPc = "save" /\ otherPc' = "off")
            => (file'.state = "saved" /\ SetOf(file'.known_stars) = otherKnown)]_vars

\* C19 witness: a lost update; the first process has written its known set and
\* is still at the end of its cycle, and the file, rewritten by the second
\* process, no longer holds one of the keys the first one wrote
C19_Witness ==
    /\ pc = "checked"
    /\ otherPc = "off"
    /\ file.state = "saved"
    /\ known_stars \ SetOf(file.known_stars) # {}

\* every entry of the new-list has been dealt with: its profile fetch failed,
\* the filter skipped it, or every configured channel was posted to
AllAttempted ==
    \A k \in Keys(new_stars) :
        \/ k \in enrichFailed \cup skipped
        \/ /\ slack_webhook => k \in PostedTo("slack")
           /\ discord_webhook => k \in PostedTo("discord")

\* C20: the state file is written by the save at the end of the cycle only,
\* when every entry of the new-list has been dealt with; until then none of
\* the keys the cycle detected is in the file; so after a kill between a
\* post and that write the posted key is not in the file, and the next
\* process detects the identity again if it is still listed
C20_SavedAfterAllNotified ==
    /\ [][file' # file => (pc = "save" /\ AllAttempted)]_vars
    /\ []((pc \in {"enrich", "slack", "discord", "save"} /\ file.state # "corrupt")
            => Keys(new_stars) \cap LoadState(file) = {})
    /\ []((pc \in {"off", "main", "fetch", "diff"} /\ file.state # "corrupt")
            => crashed \cap LoadState(file) = {})
    /\ []((PastDiff /\ Checking)
            => crashed \cap Keys(stargazers) \subseteq Keys(new_stars))

\* C20 witness: a key that was posted in a cycle killed before its write is
\* posted again by the next process
C20_Witness ==
    /\ pc \in {"discord", "save"}
    /\ crashed \cap PostedTo("slack") # {}

====
